---------------------------- MODULE Spec2Model ----------------------------
(***************************************************************************)
(* A model of arch/mk_syscalls_linux.go, the generator of the per-         *)
(* architecture syscall tables.  Text is modelled at character level: a    *)
(* line is a sequence of one-character strings, a file a sequence of       *)
(* lines.  Three specifications are given:                                 *)
(*   Spec       one run of main() against a remote source tree;            *)
(*   ParseSpec  one iteration of readSyscalls' scan loop (TrimSpace, then  *)
(*              one architecture's line parser) on one raw line;           *)
(*   FullSpec   both of them, for properties that speak of a single line   *)
(*              and of the run.                                            *)
(* The syscall numbers of the inputs are small or do not fit an int;       *)
(* strconv.Atoi's range check is modelled on the digits.                   *)
(***************************************************************************)
EXTENDS Integers, Sequences, FiniteSets, TLC

(***************************************************************************)
(* Bounds of the model.                                                    *)
(***************************************************************************)
\* most lines in a remote file of the run specification
MaxLines == 2

(***************************************************************************)
(* Characters and the string functions of the Go library that the code    *)
(* uses (strings.TrimSpace, strings.Fields, strings.HasPrefix,             *)
(* strconv.Atoi, filepath.Base).                                           *)
(***************************************************************************)
Space == {" ", "\t"}
Digits == {"0","1","2","3","4","5","6","7","8","9"}
Lower == {"a","b","c","d","e","f","g","h","i","j","k","l","m","n","o","p",
          "q","r","s","t","u","v","w","x","y","z"}
\* the character class [a-z0-9_] of both regular expressions
NameChars == Lower \cup Digits \cup {"_"}

DigitVal(c) ==
  CASE c = "0" -> 0 [] c = "1" -> 1 [] c = "2" -> 2 [] c = "3" -> 3
    [] c = "4" -> 4 [] c = "5" -> 5 [] c = "6" -> 6 [] c = "7" -> 7
    [] c = "8" -> 8 [] c = "9" -> 9

Drop(s, n) == SubSeq(s, n + 1, Len(s))

HasPrefix(s, p) == Len(s) >= Len(p) /\ SubSeq(s, 1, Len(p)) = p

RECURSIVE TrimLeft(_)
TrimLeft(s) == IF s # <<>> /\ s[1] \in Space THEN TrimLeft(Tail(s)) ELSE s

RECURSIVE TrimRight(_)
TrimRight(s) ==
  IF s # <<>> /\ s[Len(s)] \in Space
  THEN TrimRight(SubSeq(s, 1, Len(s) - 1)) ELSE s

TrimSpace(s) == TrimRight(TrimLeft(s))

\* length of the longest prefix of s whose characters are all in cls
RECURSIVE Span(_, _)
Span(s, cls) == IF s # <<>> /\ s[1] \in cls THEN 1 + Span(Tail(s), cls) ELSE 0

\* strings.Fields: the maximal runs of non-space characters, in order
RECURSIVE Fields(_)
Fields(s) ==
  LET t == TrimLeft(s)
      n == Span(t, {t[i] : i \in 1..Len(t)} \ Space)
  IN IF t = <<>> THEN <<>> ELSE <<SubSeq(t, 1, n)>> \o Fields(Drop(t, n))

\* the decimal digits of the largest int (64 bit) and of the magnitude of
\* the smallest one
MaxIntDigits ==
  <<"9","2","2","3","3","7","2","0","3","6","8","5","4","7","7","5","8","0","7">>
MinIntDigits ==
  <<"9","2","2","3","3","7","2","0","3","6","8","5","4","7","7","5","8","0","8">>

RECURSIVE StripZeros(_)
StripZeros(d) == IF d # <<>> /\ d[1] = "0" THEN StripZeros(Tail(d)) ELSE d

\* a < b for digit strings of the same length
RECURSIVE DigitsLess(_, _)
DigitsLess(a, b) ==
  /\ a # <<>>
  /\ \/ DigitVal(a[1]) < DigitVal(b[1])
     \/ a[1] = b[1] /\ DigitsLess(Tail(a), Tail(b))

\* the magnitude d exceeds the limit lim (both digit strings)
OutOfRange(d, lim) ==
  LET m == StripZeros(d)
  IN Len(m) > Len(lim) \/ (Len(m) = Len(lim) /\ DigitsLess(lim, m))

RECURSIVE DigitsValue(_)
DigitsValue(d) ==
  IF d = <<>> THEN 0
  ELSE 10 * DigitsValue(SubSeq(d, 1, Len(d) - 1)) + DigitVal(d[Len(d)])

\* strconv.Atoi: an optional sign, then one or more decimal digits, the
\* value within the range of int; anything else is an error
Atoi(s) ==
  LET neg  == s # <<>> /\ s[1] = "-"
      body == IF s # <<>> /\ s[1] \in {"+", "-"} THEN Tail(s) ELSE s
  IN IF body = <<>> \/ \E i \in 1..Len(body) : body[i] \notin Digits
     THEN [ok |-> FALSE, val |-> 0]
     ELSE IF OutOfRange(body, IF neg THEN MinIntDigits ELSE MaxIntDigits)
     THEN [ok |-> FALSE, val |-> 0]
     ELSE [ok |-> TRUE,
           val |-> IF neg THEN 0 - DigitsValue(body) ELSE DigitsValue(body)]

(***************************************************************************)
(* What a line parser returns: (nil, nil), (&Syscall{Num, Name}, nil) or   *)
(* (nil, err).                                                             *)
(***************************************************************************)
Nothing == [kind |-> "nil", Num |-> 0, Name |-> <<>>]
Failure == [kind |-> "err", Num |-> 0, Name |-> <<>>]
Syscall(num, name) == [kind |-> "syscall", Num |-> num, Name |-> name]
\* no result yet
Pending == [kind |-> "pending", Num |-> 0, Name |-> <<>>]

oabi == <<"o","a","b","i">>
x64 == <<"x","6","4">>
x32 == <<"x","3","2">>

\* Base value for ARM private syscalls, 0x0f0000
armNrBase == 983040

sentinel == <<"s","y","s","c","a","l","l","s">>
omit == { <<"s","y","n","c","_","f","i","l","e","_","r","a","n","g","e","2">> }

(***************************************************************************)
(* The table-format parser.  The four closures of buildARM, build386,      *)
(* buildX32 and buildX86_64 differ only in the ABI tag they filter out.    *)
(***************************************************************************)
\* parseTable with a malformed number skipped instead of reported
parseTableLenient(line, excluded) ==
  IF Len(line) = 0 \/ HasPrefix(line, <<"#">>) THEN Nothing
  ELSE LET fields == Fields(line)
       IN IF Len(fields) < 3 THEN Failure
          ELSE IF fields[2] \in excluded THEN Nothing
          ELSE LET num == Atoi(fields[1])
               IN IF ~num.ok THEN Nothing
                  ELSE Syscall(num.val, fields[3])

parseTable(line, excluded) ==
  IF Len(line) = 0 \/ HasPrefix(line, <<"#">>) THEN Nothing
  ELSE LET fields == Fields(line)
       IN IF Len(fields) < 3 THEN Failure
          ELSE IF fields[2] \in excluded THEN Nothing
          ELSE LET num == Atoi(fields[1])
               IN IF ~num.ok THEN Failure
                  ELSE Syscall(num.val, fields[3])

\* the ARM table parser without its OABI filter
parseARMTableUnfiltered(line) == parseTable(line, {})
parseARMTable(line) == parseTable(line, {oabi})
parse386(line) == parseTable(line, {})
\* the X32 parser filtering the tag "64" instead of "x64"
parseX32Tag64(line) == parseTable(line, { <<"6","4">> })
parseX32(line) == parseTable(line, {x64})
parseX86_64(line) == parseTable(line, {x32})

(***************************************************************************)
(* The two regular expressions.  Every repetition in them is followed by   *)
(* a character outside its class, so the leftmost-first match takes the    *)
(* maximal run at each repetition and no backtracking changes the result.  *)
(* A match is [ok, name, number] (FindStringSubmatch's groups 1 and 2).    *)
(***************************************************************************)
NoMatch == [ok |-> FALSE, name |-> <<>>, number |-> <<>>]

armPrefix == <<"#","d","e","f","i","n","e"," ","_","_","A","R","M","_","N","R","_">>
armBaseLit == <<"(","_","_","A","R","M","_","N","R","_","B","A","S","E","+">>
nrPrefix == <<"#","d","e","f","i","n","e"," ","_","_","N","R">>
nr3264 == <<"3","2","6","4">>

\* \s of the regular expressions, over the characters of the model
ReSpace == {" ", "\t"}

\* ^#define __ARM_NR_(?P<syscall>[a-z0-9_]+)\s+\(__ARM_NR_BASE\+(?P<number>\d+)\)
armUnistdSycallRegex(line) ==
  IF ~HasPrefix(line, armPrefix) THEN NoMatch
  ELSE LET r1 == Drop(line, Len(armPrefix))
           n  == Span(r1, NameChars)
           r2 == Drop(r1, n)
           w  == Span(r2, ReSpace)
           r3 == Drop(r2, w)
           r4 == Drop(r3, Len(armBaseLit))
           d  == Span(r4, Digits)
           r5 == Drop(r4, d)
       IN IF /\ n >= 1
             /\ w >= 1
             /\ HasPrefix(r3, armBaseLit)
             /\ d >= 1
             /\ HasPrefix(r5, <<")">>)
          THEN [ok |-> TRUE, name |-> SubSeq(r1, 1, n), number |-> SubSeq(r4, 1, d)]
          ELSE NoMatch

\* ^#define __NR(?:3264)?_(?P<syscall>[a-z0-9_]+)\s+(?P<number>\d+)
nrUnistdSycallRegex(line) ==
  IF ~HasPrefix(line, nrPrefix) THEN NoMatch
  ELSE LET r0 == Drop(line, Len(nrPrefix))
           r1 == IF HasPrefix(r0, nr3264) THEN Drop(r0, Len(nr3264)) ELSE r0
           r2 == Drop(r1, 1)
           n  == Span(r2, NameChars)
           r3 == Drop(r2, n)
           w  == Span(r3, ReSpace)
           r4 == Drop(r3, w)
           d  == Span(r4, Digits)
       IN IF HasPrefix(r1, <<"_">>) /\ n >= 1 /\ w >= 1 /\ d >= 1
          THEN [ok |-> TRUE, name |-> SubSeq(r2, 1, n), number |-> SubSeq(r4, 1, d)]
          ELSE NoMatch

\* the ARM header parser without num += armNrBase
parseARMHeaderNoBase(line) ==
  LET matches == armUnistdSycallRegex(line)
  IN IF ~matches.ok THEN Nothing
     ELSE LET num == Atoi(matches.number)
          IN IF ~num.ok THEN Failure
             ELSE Syscall(num.val, matches.name)

\* the header parser of buildARM (private syscalls)
parseARMHeader(line) ==
  LET matches == armUnistdSycallRegex(line)
  IN IF ~matches.ok THEN Nothing
     ELSE LET num == Atoi(matches.number)
          IN IF ~num.ok THEN Failure
             ELSE Syscall(num.val + armNrBase, matches.name)

\* the header parser of buildAARCH64
parseAARCH64(line) ==
  LET matches == nrUnistdSycallRegex(line)
  IN IF ~matches.ok \/ matches.name = sentinel \/ matches.name \in omit
     THEN Nothing
     ELSE LET num == Atoi(matches.number)
          IN IF ~num.ok THEN Failure
             ELSE Syscall(num.val, matches.name)

\* the line parsers by name
Parsers == {"ARMTable", "ARMHeader", "AARCH64", "386", "X32", "X86_64"}
parse(p, line) ==
  CASE p = "ARMTable"  -> parseARMTable(line)
    [] p = "ARMHeader" -> parseARMHeader(line)
    [] p = "AARCH64"   -> parseAARCH64(line)
    [] p = "386"       -> parse386(line)
    [] p = "X32"       -> parseX32(line)
    [] p = "X86_64"    -> parseX86_64(line)

(***************************************************************************)
(* The run of main().                                                      *)
(*                                                                         *)
(* A file is a sequence of lines.  The remote tree gives the body served   *)
(* for each path at the pinned revision; the scratch directory maps each   *)
(* file name in it to the file's content.                                  *)
(***************************************************************************)
VARIABLES
  remote,     \* the remote source tree: path -> lines of the file served
  pc,         \* position in main: "main", "build", "sort", "create", "render", "exit"
  tmp,        \* the scratch directory: "none", "exists", "removed"
  dir,        \* the files of the scratch directory: name -> lines
  bi,         \* index of the running builder in builders
  fi,         \* index of the builder's next readSyscalls call
  results,    \* the lists returned by the builder's readSyscalls calls so far
  Arches,     \* params.Arches
  outBefore,  \* the output file as it was when the run started
  out,        \* the output file: [exists, data]
  exitCode,   \* -1 while running, then the exit status of the process
  logged,     \* the error given to log.Fatal, "" if none
  pParser,    \* ParseSpec: the line parser applied
  pRaw,       \* ParseSpec: the raw line scanned
  pRes        \* ParseSpec: Pending, then what the parser returned

runVars == <<remote, pc, tmp, dir, bi, fi, results, Arches, outBefore, out,
             exitCode, logged>>
parseVars == <<pParser, pRaw, pRes>>
vars == <<remote, pc, tmp, dir, bi, fi, results, Arches, outBefore, out,
          exitCode, logged, pParser, pRaw, pRes>>

\* the paths fetched, as their components
tablePathARM == <<"arch", "arm", "tools", "syscall.tbl">>
headerPathARM == <<"arch", "arm", "include", "uapi", "asm", "unistd.h">>
headerPathAARCH64 == <<"include", "uapi", "asm-generic", "unistd.h">>
path386 == <<"arch", "x86", "entry", "syscalls", "syscall_32.tbl">>
path64 == <<"arch", "x86", "entry", "syscalls", "syscall_64.tbl">>
Paths == {tablePathARM, headerPathARM, headerPathAARCH64, path386, path64}

baseURL == <<"https:", "", "raw.githubusercontent.com", "torvalds", "linux">>
linuxVersion == <<"v6.13">>

\* filepath.Base: the last element of a path
Base(path) == path[Len(path)]

\* List of all builders.
builders == <<"ARM", "AARCH64", "386", "X32", "X86_64">>

\* the readSyscalls calls of each builder, in order: the path and the parser
Reads(b) ==
  CASE b = "ARM"     -> << [path |-> tablePathARM, parser |-> "ARMTable"],
                           [path |-> headerPathARM, parser |-> "ARMHeader"] >>
    [] b = "AARCH64" -> << [path |-> headerPathAARCH64, parser |-> "AARCH64"] >>
    [] b = "386"     -> << [path |-> path386, parser |-> "386"] >>
    [] b = "X32"     -> << [path |-> path64, parser |-> "X32"] >>
    [] b = "X86_64"  -> << [path |-> path64, parser |-> "X86_64"] >>

\* the scan loop of readSyscalls: every line trimmed and parsed, the
\* syscalls appended; the first error ends it with (nil, err)
RECURSIVE Scan(_, _, _)
Scan(lines, p, syscalls) ==
  IF lines = <<>> THEN [err |-> FALSE, syscalls |-> syscalls]
  ELSE LET syscall == parse(p, TrimSpace(Head(lines)))
       IN IF syscall.kind = "err" THEN [err |-> TRUE, syscalls |-> <<>>]
          ELSE Scan(Tail(lines), p,
                    IF syscall.kind = "syscall"
                    THEN Append(syscalls, [Num |-> syscall.Num, Name |-> syscall.Name])
                    ELSE syscalls)

\* a file opened without truncation: an existing file keeps its content
CreateNoTruncate(d, name) ==
  [n \in DOMAIN d \cup {name} |-> IF n \in DOMAIN d THEN d[n] ELSE <<>>]

\* os.Create: the file exists and is empty, whatever it held
Create(d, name) == [n \in DOMAIN d \cup {name} |-> IF n = name THEN <<>> ELSE d[n]]

\* io.Copy into the file just created: body written from offset 0
Copy(d, name, body) ==
  [d EXCEPT ![name] = body \o SubSeq(d[name], Len(body) + 1, Len(d[name]))]

\* downloadFile, when it succeeds: the scratch directory afterwards
downloadFile(d, path) == Copy(Create(d, Base(baseURL \o linuxVersion \o path)),
                              Base(baseURL \o linuxVersion \o path), remote[path])

\* append(syscallsA, syscallsB...): the lists of the calls, concatenated
RECURSIVE Merge(_)
Merge(lists) == IF lists = <<>> THEN <<>> ELSE Head(lists) \o Merge(Tail(lists))

IsSorted(s) == \A i \in 1..(Len(s) - 1) : s[i].Num <= s[i + 1].Num

\* no sort at all
sortSliceUnsorted(s) == {s}

\* sort.Slice by Num: every ascending arrangement of the elements is a
\* possible result (sort.Slice does not promise to keep equal elements in
\* their order)
sortSlice(s) ==
  { t \in { [i \in 1..Len(s) |-> s[q[i]]] : q \in Permutations(1..Len(s)) } :
      IsSorted(t) }

\* the execution of the template: the version comment, then one map
\* literal per architecture with one entry per syscall
RECURSIVE Render(_)
Render(arches) ==
  IF arches = <<>> THEN <<>>
  ELSE Render(SubSeq(arches, 1, Len(arches) - 1))
       \o << <<"map", arches[Len(arches)].Name>> >>
       \o [i \in 1..Len(arches[Len(arches)].Syscalls) |->
             <<"entry", arches[Len(arches)].Syscalls[i].Num,
               arches[Len(arches)].Syscalls[i].Name>>]
       \o << <<"end">> >>

Execute(arches) == << <<"version", linuxVersion>> >> \o Render(arches)

\* log.Fatal(err): the error is logged and the process exits with status 1;
\* os.Exit runs no deferred call
Fatal(err) ==
  /\ pc' = "exit"
  /\ exitCode' = 1
  /\ logged' = err

\* ioutil.TempDir succeeds
MkTempDir ==
  /\ pc = "main"
  /\ tmp' = "exists"
  /\ pc' = "build"
  /\ UNCHANGED <<remote, dir, bi, fi, results, Arches, outBefore, out,
                 exitCode, logged, parseVars>>

\* ioutil.TempDir fails
MkTempDirFail ==
  /\ pc = "main"
  /\ Fatal("tempdir")
  /\ UNCHANGED <<remote, tmp, dir, bi, fi, results, Arches, outBefore, out,
                 parseVars>>

\* one readSyscalls call that returns a list
ReadSyscalls ==
  /\ pc = "build"
  /\ LET rd == Reads(builders[bi])[fi]
         d  == downloadFile(dir, rd.path)
         r  == Scan(d[Base(rd.path)], rd.parser, <<>>)
     IN /\ ~r.err
        /\ dir' = d
        /\ results' = Append(results, r.syscalls)
        /\ IF fi < Len(Reads(builders[bi]))
           THEN fi' = fi + 1 /\ pc' = "build"
           ELSE fi' = fi /\ pc' = "sort"
  /\ UNCHANGED <<remote, tmp, bi, Arches, outBefore, out, exitCode, logged,
                 parseVars>>

\* one readSyscalls call whose parser returns an error
ReadSyscallsParseError ==
  /\ pc = "build"
  /\ LET rd == Reads(builders[bi])[fi]
         d  == downloadFile(dir, rd.path)
         r  == Scan(d[Base(rd.path)], rd.parser, <<>>)
     IN /\ r.err
        /\ dir' = d
  /\ Fatal("parse")
  /\ UNCHANGED <<remote, tmp, bi, fi, results, Arches, outBefore, out, parseVars>>

\* one readSyscalls call that fails outside the parser: http.Get fails, the
\* status is not 200, os.Create fails, io.Copy fails after part of the
\* body, os.Open fails, or the scanner reports an error
ReadSyscallsIOError ==
  /\ pc = "build"
  /\ LET rd   == Reads(builders[bi])[fi]
         name == Base(baseURL \o linuxVersion \o rd.path)
     IN \/ /\ \E err \in {"get", "status", "create"} : Fatal(err)
           /\ dir' = dir
        \/ /\ \E k \in 0..(Len(remote[rd.path]) - 1) :
                dir' = Copy(Create(dir, name), name, SubSeq(remote[rd.path], 1, k))
           /\ Fatal("copy")
        \/ /\ \E err \in {"open", "scan"} : Fatal(err)
           /\ dir' = downloadFile(dir, rd.path)
  /\ UNCHANGED <<remote, tmp, bi, fi, results, Arches, outBefore, out, parseVars>>

\* the end of a builder: the lists are merged and sorted, and main appends
\* the architecture to params.Arches
FinishBuilder ==
  /\ pc = "sort"
  /\ \E syscalls \in sortSlice(Merge(results)) :
       Arches' = Append(Arches, [Name |-> builders[bi], Syscalls |-> syscalls])
  /\ results' = <<>>
  /\ fi' = 1
  /\ IF bi < Len(builders)
     THEN bi' = bi + 1 /\ pc' = "build"
     ELSE bi' = bi /\ pc' = "create"
  /\ UNCHANGED <<remote, tmp, dir, outBefore, out, exitCode, logged, parseVars>>

\* os.Create(outputFile) succeeds: the output file exists and is empty
CreateOutput ==
  /\ pc = "create"
  /\ out' = [exists |-> TRUE, data |-> <<>>]
  /\ pc' = "render"
  /\ UNCHANGED <<remote, tmp, dir, bi, fi, results, Arches, outBefore,
                 exitCode, logged, parseVars>>

\* os.Create(outputFile) fails
CreateOutputFail ==
  /\ pc = "create"
  /\ Fatal("output")
  /\ UNCHANGED <<remote, tmp, dir, bi, fi, results, Arches, outBefore, out,
                 parseVars>>

\* tmpl.Execute succeeds and main returns: the deferred out.Close and
\* os.RemoveAll(tmp) run and the process exits with status 0
ExecuteTemplate ==
  /\ pc = "render"
  /\ out' = [out EXCEPT !.data = Execute(Arches)]
  /\ tmp' = "removed"
  /\ dir' = << >>
  /\ pc' = "exit"
  /\ exitCode' = 0
  /\ UNCHANGED <<remote, bi, fi, results, Arches, outBefore, logged, parseVars>>

\* tmpl.Execute fails on a write, after part of the text was written
ExecuteTemplateFail ==
  /\ pc = "render"
  /\ \E k \in 0..(Len(Execute(Arches)) - 1) :
       out' = [out EXCEPT !.data = SubSeq(Execute(Arches), 1, k)]
  /\ Fatal("template")
  /\ UNCHANGED <<remote, tmp, dir, bi, fi, results, Arches, outBefore, parseVars>>


(***************************************************************************)
(* The remote trees of the run specification.  Each file is drawn from the *)
(* sequences of at most MaxLines lines over a few lines of its format; a   *)
(* tree departs from the baseline in the file of one path.                 *)
(***************************************************************************)
armTableLines ==
  << <<"3"," ","c","o","m","m","o","n"," ","a">>,
     <<"1"," ","o","a","b","i"," ","b">>,
     <<"x"," ","o","a","b","i"," ","c">>,
     <<"3"," ","e","a","b","i"," ","d">>,
     <<"2"," ","e","a","b","i">> >>

armHeaderLines ==
  << <<"#","d","e","f","i","n","e"," ","_","_","A","R","M","_","N","R","_","f","\t","(","_","_","A","R","M","_","N","R","_","B","A","S","E","+","2",")">>,
     <<"#","d","e","f","i","n","e"," ","_","_","N","R","_","q"," ","6">>,
     <<"#","d","e","f","i","n","e"," ","_","_","A","R","M","_","N","R","_","g"," ","(","_","_","A","R","M","_","N","R","_","B","A","S","E","+","1",")">> >>

genericHeaderLines ==
  << <<"#","d","e","f","i","n","e"," ","_","_","N","R","_","r"," ","5">>,
     <<"#","d","e","f","i","n","e"," ","_","_","N","R","_","s","y","n","c","_","f","i","l","e","_","r","a","n","g","e","2"," ","4">>,
     <<"#","d","e","f","i","n","e"," ","_","_","N","R","3","2","6","4","_","s"," ","4">>,
     <<"#","d","e","f","i","n","e"," ","_","_","N","R","_","s","y","s","c","a","l","l","s"," ","9">>,
     <<"#","u","n","d","e","f"," ","_","_","N","R","_","s","y","s","c","a","l","l","s">> >>

table32Lines ==
  << <<"2"," ","i","3","8","6"," ","a">>,
     <<"1"," ","i","3","8","6"," ","b">>,
     <<"2"," ","i","3","8","6"," ","c">>,
     <<"1"," ","i","3","8","6">>,
     <<"#"," ","9"," ","i","3","8","6"," ","z">> >>

table64Lines ==
  << <<"1"," ","c","o","m","m","o","n"," ","a">>,
     <<"0"," ","x","6","4"," ","c">>,
     <<"1"," ","x","3","2"," ","b">>,
     <<"y"," ","6","4"," ","d">>,
     <<"\t","5"," ","c","o","m","m","o","n"," ","e"," ">> >>

LinesOf(path) ==
  CASE path = tablePathARM      -> armTableLines
    [] path = headerPathARM     -> armHeaderLines
    [] path = headerPathAARCH64 -> genericHeaderLines
    [] path = path386           -> table32Lines
    [] path = path64            -> table64Lines

Range(s) == {s[i] : i \in 1..Len(s)}

Contents(path) == UNION { [1..n -> Range(LinesOf(path))] : n \in 0..MaxLines }

\* the baseline tree: the first two lines of each format
Baseline == [path \in Paths |-> SubSeq(LinesOf(path), 1, 2)]

Trees ==
  UNION { { [p \in Paths |-> IF p = path THEN c ELSE Baseline[p]] :
              c \in Contents(path) } : path \in Paths }

\* the output file before the run: absent, or left by an earlier run
Stale == [exists |-> TRUE, data |-> << <<"version", <<"v6.12">> >> >>]
Absent == [exists |-> FALSE, data |-> <<>>]

Init ==
  /\ remote \in Trees
  /\ pc = "main"
  /\ tmp = "none"
  /\ dir = << >>
  /\ bi = 1
  /\ fi = 1
  /\ results = <<>>
  /\ Arches = <<>>
  /\ outBefore \in {Absent, Stale}
  /\ out = outBefore
  /\ exitCode = -1
  /\ logged = ""
  /\ pParser = "none"
  /\ pRaw = <<>>
  /\ pRes = Nothing

Next ==
  \/ MkTempDir
  \/ MkTempDirFail
  \/ ReadSyscalls
  \/ ReadSyscallsParseError
  \/ ReadSyscallsIOError
  \/ FinishBuilder
  \/ CreateOutput
  \/ CreateOutputFail
  \/ ExecuteTemplate
  \/ ExecuteTemplateFail

Spec == Init /\ [][Next]_vars

(***************************************************************************)
(* The line parsers alone: one raw line of a file, trimmed and given to    *)
(* one parser, as one iteration of the loop of readSyscalls does.          *)
(***************************************************************************)
Leads ==
  { <<>>,
    <<" ">> }

Seps ==
  { <<" ">>,
    <<"\t"," ">> }

Nums ==
  { <<"1">>,
    <<"1","2">>,
    <<"-","3">>,
    <<"+","7">>,
    <<"x">>,
    <<"1","x">>,
    <<"9","9","9","9","9","9","9","9","9","9","9","9","9","9","9","9","9","9","9","9">> }

Abis ==
  { <<"c","o","m","m","o","n">>,
    <<"o","a","b","i">>,
    <<"x","6","4">>,
    <<"x","3","2">>,
    <<"6","4">> }

Names ==
  { <<"a">>,
    <<"r","e","a","d">> }

Tails ==
  { <<>>,
    <<" ","s","y","s","_","r","e","a","d">>,
    <<" ">> }

OtherLines ==
  { <<>>,
    <<" ">>,
    <<"\t">>,
    <<"#">>,
    <<"#"," ","1"," ","c","o","m","m","o","n"," ","a">>,
    <<" ","#"," ","c">>,
    <<"1">>,
    <<"1"," ","c","o","m","m","o","n">>,
    <<"x">>,
    <<"1"," ","o","a","b","i">>,
    <<"x"," ","x","6","4">>,
    <<"#","d","e","f","i","n","e"," ","_","_","A","R","M","_","N","R","_","B","A","S","E"," ","0","x","0","f","0","0","0","0">>,
    <<"#","d","e","f","i","n","e"," "," ","_","_","A","R","M","_","N","R","_","f"," ","(","_","_","A","R","M","_","N","R","_","B","A","S","E","+","2",")">>,
    <<"#","d","e","f","i","n","e"," ","_","_","A","R","M","_","N","R","_","f"," ","(","_","_","A","R","M","_","N","R","_","B","A","S","E"," ","+"," ","2",")">>,
    <<"#","u","n","d","e","f"," ","_","_","N","R","_","s","y","s","c","a","l","l","s">>,
    <<"#","d","e","f","i","n","e"," ","_","_","N","R","_","x"," ","(","_","_","N","R","_","r"," ","+"," ","1",")">>,
    <<"#","d","e","f","i","n","e"," ","_","_","N","R","_","3","2","6","4","_","r"," ","7">>,
    <<"#","d","e","f","i","n","e"," ","_","_","N","R","3","2","6","4","r"," ","7">> }

ArmNames ==
  { <<"f">>,
    <<"s","e","t","_","t","l","s">>,
    <<"B","A","S","E">>,
    <<>> }

ArmGaps ==
  { <<" ">>,
    <<"\t","\t">>,
    <<>> }

ArmNumbers ==
  { <<"2">>,
    <<"0","5">>,
    <<>>,
    <<"9","9","9","9","9","9","9","9","9","9","9","9","9","9","9","9","9","9","9","9">> }

ArmCloses ==
  { <<")">>,
    <<>>,
    <<")"," ","/","*"," ","c"," ","*","/">> }

NrWidths ==
  { <<>>,
    <<"3","2","6","4">> }

NrNames ==
  { <<"r">>,
    <<"s","y","s","c","a","l","l","s">>,
    <<"s","y","n","c","_","f","i","l","e","_","r","a","n","g","e","2">>,
    <<"s","y","n","c","_","f","i","l","e","_","r","a","n","g","e">>,
    <<"R">>,
    <<>> }

NrGaps ==
  { <<" ">>,
    <<>> }

NrNumbers ==
  { <<"6","3">>,
    <<>>,
    <<"x">>,
    <<"9","9","9","9","9","9","9","9","9","9","9","9","9","9","9","9","9","9","9","9">> }

NrTails ==
  { <<>>,
    <<"a","b","c">> }

TableRawLines ==
  { lead \o num \o sep \o abi \o sep \o name \o tail :
      lead \in Leads, num \in Nums, sep \in Seps, abi \in Abis,
      name \in Names, tail \in Tails }

ArmRawLines ==
  { lead \o armPrefix \o name \o gap \o armBaseLit \o number \o close :
      lead \in Leads, name \in ArmNames, gap \in ArmGaps,
      number \in ArmNumbers, close \in ArmCloses }

NrRawLines ==
  { lead \o nrPrefix \o width \o <<"_">> \o name \o gap \o number \o tail :
      lead \in Leads, width \in NrWidths, name \in NrNames, gap \in NrGaps,
      number \in NrNumbers, tail \in NrTails }

RawLines ==
  TableRawLines \cup ArmRawLines \cup NrRawLines \cup OtherLines
  \cup UNION { Range(LinesOf(path)) : path \in Paths }

ParseInit ==
  /\ pParser \in Parsers
  /\ pRaw \in RawLines
  /\ pRes = Pending
  /\ remote = Baseline
  /\ pc = "exit"
  /\ tmp = "none"
  /\ dir = << >>
  /\ bi = 1
  /\ fi = 1
  /\ results = <<>>
  /\ Arches = <<>>
  /\ outBefore = Absent
  /\ out = Absent
  /\ exitCode = -1
  /\ logged = ""

\* line := strings.TrimSpace(s.Text()); syscall, err := parse(line)
ScanLine ==
  /\ pRes = Pending
  /\ pRes' = parse(pParser, TrimSpace(pRaw))
  /\ UNCHANGED <<pParser, pRaw, runVars>>

ParseNext == ScanLine

ParseSpec == ParseInit /\ [][ParseNext]_vars

\* both state spaces together: a run of main, or one line given to a parser
FullInit == Init \/ ParseInit
FullNext == Next \/ ParseNext
FullSpec == FullInit /\ [][FullNext]_vars

(***************************************************************************)
(* Definitions used to state the properties.                               *)
(***************************************************************************)
\* optional sign, then digits: a decimal integer that fits an int
IsInt(f) ==
  LET b == IF f # <<>> /\ f[1] \in {"+", "-"} THEN Tail(f) ELSE f
  IN /\ b # <<>>
     /\ \A i \in 1..Len(b) : b[i] \in Digits
     /\ Len(b) <= 18

IntValue(f) ==
  IF f[1] = "-" THEN 0 - DigitsValue(Tail(f))
  ELSE IF f[1] = "+" THEN DigitsValue(Tail(f))
  ELSE DigitsValue(f)

TableParsers == {"ARMTable", "386", "X32", "X86_64"}

\* the ABI tag each table parser leaves out, in the words of the specification
ExcludedTag(p) ==
  CASE p = "ARMTable" -> {<<"o","a","b","i">>}
    [] p = "X32"      -> {<<"x","6","4">>}
    [] p = "X86_64"   -> {<<"x","3","2">>}
    [] p = "386"      -> {}

\* a trimmed line that is neither empty nor a comment
IsEntryLine(t) == t # <<>> /\ t[1] # "#"

\* an entry line of the table format that is malformed
Malformed(t) ==
  IsEntryLine(t) /\ (Len(Fields(t)) < 3 \/ ~IsInt(Fields(t)[1]))

\* an entry line with at least three fields whose ABI tag p leaves out
Excluded(p, t) ==
  IsEntryLine(t) /\ Len(Fields(t)) >= 3 /\ Fields(t)[2] \in ExcludedTag(p)

Count(s, x) == Cardinality({i \in 1..Len(s) : s[i] = x})
IsPerm(s, t) == Len(s) = Len(t) /\ \A i \in 1..Len(s) : Count(s, s[i]) = Count(t, s[i])

\* the pairs the parsers of builder b yield for the content served for
\* its own paths, in the order parsed
RECURSIVE YieldedFrom(_, _)
YieldedFrom(b, j) ==
  IF j > Len(Reads(b)) THEN <<>>
  ELSE Scan(remote[Reads(b)[j].path], Reads(b)[j].parser, <<>>).syscalls
       \o YieldedFrom(b, j + 1)
Yielded(b) == YieldedFrom(b, 1)

\* the entries of the map literal of architecture b in the output file
RECURSIVE EntriesFrom(_, _)
EntriesFrom(data, j) ==
  IF j > Len(data) \/ data[j][1] # "entry" THEN <<>>
  ELSE <<[Num |-> data[j][2], Name |-> data[j][3]]>> \o EntriesFrom(data, j + 1)

Emitted(b) ==
  LET J == {j \in 1..Len(out.data) : out.data[j][1] = "map" /\ out.data[j][2] = b}
  IN IF J = {} THEN <<>> ELSE EntriesFrom(out.data, (CHOOSE j \in J : TRUE) + 1)

Success == exitCode = 0

\* s sorted by Num with equal numbers kept in their order
RECURSIVE StableSorted(_)
StableSorted(s) ==
  IF s = <<>> THEN <<>>
  ELSE LET m    == CHOOSE i \in 1..Len(s) :
                     /\ \A k \in 1..Len(s) : s[i].Num <= s[k].Num
                     /\ \A k \in 1..(i - 1) : s[k].Num # s[i].Num
           rest == [k \in 1..(Len(s) - 1) |-> IF k < m THEN s[k] ELSE s[k + 1]]
       IN <<s[m]>> \o StableSorted(rest)

\* the lines of a file that p's excluded tag does not remove
RECURSIVE Kept(_, _)
Kept(lines, p) ==
  IF lines = <<>> THEN <<>>
  ELSE IF Excluded(p, TrimSpace(Head(lines))) THEN Kept(Tail(lines), p)
  ELSE <<Head(lines)>> \o Kept(Tail(lines), p)

(***************************************************************************)
(* The properties.                                                         *)
(***************************************************************************)

\* C1: a trimmed entry line of the table format with at least three fields
\* <num> <abi> <name> and a decimal <num> gives exactly (num, name), unless
\* <abi> is the tag the architecture excludes (ARM "oabi", X32 "x64",
\* X86_64 "x32", 386 none), and then it gives nothing and no error.
C1_TableLine ==
  (pRes # Pending /\ pParser \in TableParsers) =>
    LET t == TrimSpace(pRaw)
        f == Fields(t)
    IN (IsEntryLine(t) /\ Len(f) >= 3 /\ IsInt(f[1])) =>
         IF f[2] \in ExcludedTag(pParser) THEN pRes = Nothing
         ELSE pRes = Syscall(IntValue(f[1]), f[3])

\* C1 witness: the X32 parser was given a well-formed line tagged "x64"
\* and returned nothing
C1_Witness ==
  /\ pRes # Pending
  /\ pParser = "X32"
  /\ LET f == Fields(TrimSpace(pRaw))
     IN /\ IsEntryLine(TrimSpace(pRaw))
        /\ Len(f) >= 3
        /\ IsInt(f[1])
        /\ f[2] = <<"x","6","4">>
        /\ pRes = Nothing

\* what a header parser returns for the match m of its pattern
HeaderLineYield(m, base, unnamed) ==
  IF ~m.ok THEN pRes = Nothing
  ELSE IF m.name \in unnamed THEN pRes = Nothing
  ELSE IF Len(m.number) > 18 THEN pRes = Failure
  ELSE pRes = Syscall(DigitsValue(m.number) + base, m.name)

ARMTableYield == Scan(remote[tablePathARM], "ARMTable", <<>>).syscalls
ARMHeaderYield == Scan(remote[headerPathARM], "ARMHeader", <<>>).syscalls

\* the list of ARM is the table pairs together with the header pairs, the
\* latter in the private range
ARMListMerged ==
  Len(Arches) >= 1 =>
    /\ IsPerm(Arches[1].Syscalls, ARMTableYield \o ARMHeaderYield)
    /\ \A i \in 1..Len(ARMHeaderYield) : ARMHeaderYield[i].Num >= 983040

\* C2 (as amended): a line matching the ARM pattern gives (n + 0x0f0000,
\* name); a line matching the AARCH64 pattern gives (n, name) unless the
\* name is "syscalls" or "sync_file_range2", which give nothing; a number
\* that does not fit an int is an error; a line that does not match gives
\* nothing and no error; the list of ARM is the table pairs together with
\* all the offset header pairs.
C2_HeaderLine ==
  /\ (pRes # Pending /\ pParser = "ARMHeader") =>
       HeaderLineYield(armUnistdSycallRegex(TrimSpace(pRaw)), 983040, {})
  /\ (pRes # Pending /\ pParser = "AARCH64") =>
       HeaderLineYield(nrUnistdSycallRegex(TrimSpace(pRaw)), 0,
                       { <<"s","y","s","c","a","l","l","s">>,
                         <<"s","y","n","c","_","f","i","l","e","_","r","a","n","g","e","2">> })
  /\ ARMListMerged

\* C2 witness: the list of ARM was built from a table and a header that
\* both yield pairs
C2_Witness ==
  /\ Len(Arches) >= 1
  /\ ARMTableYield # <<>>
  /\ ARMHeaderYield # <<>>

\* C2 as stated (for numbers that fit an int): every line matching the
\* AARCH64 pattern gives (n, name)
C2_Original ==
  /\ (pRes # Pending /\ pParser = "ARMHeader") =>
       HeaderLineYield(armUnistdSycallRegex(TrimSpace(pRaw)), 983040, {})
  /\ (pRes # Pending /\ pParser = "AARCH64"
        /\ Len(nrUnistdSycallRegex(TrimSpace(pRaw)).number) <= 18) =>
       HeaderLineYield(nrUnistdSycallRegex(TrimSpace(pRaw)), 0, {})
  /\ ARMListMerged

\* C3: after a successful run the list emitted for each of the five
\* architectures is ascending by number and is a permutation of the pairs
\* its parsers yielded.
C3_SortedPermutation ==
  Success =>
    \A i \in 1..Len(builders) :
      /\ IsSorted(Emitted(builders[i]))
      /\ IsPerm(Emitted(builders[i]), Yielded(builders[i]))

\* C3 witness: a successful run in which the pairs of 386 were parsed out
\* of order
C3_Witness == Success /\ ~IsSorted(Yielded("386"))

\* C4: after a successful run no list has two entries with the same number.
C4_UniqueNumbers ==
  Success =>
    \A i \in 1..Len(builders) :
      LET l == Emitted(builders[i])
      IN \A j, k \in 1..Len(l) : l[j].Num = l[k].Num => j = k

\* C5: a failure ends the run at once with a non-zero status; after a
\* failed run the output file is as it was before the run, and a changed
\* output file is the complete rendering of all five architectures.
C5_NoPartialOutput ==
  /\ logged # "" => (pc = "exit" /\ exitCode = 1)
  /\ exitCode = 1 => out = outBefore
  /\ exitCode = 0 =>
       (Len(Arches) = Len(builders) /\ out = [exists |-> TRUE, data |-> Execute(Arches)])

\* C6: once created, the scratch directory is removed by the time the
\* process exits, on every path.
C6_TmpRemoved == pc = "exit" => tmp # "exists"

\* C7: after a successful run no entry derives from an excluded line: the
\* lists of ARM, X32 and X86_64 are what the lines without the excluded tag
\* give, and AARCH64 has no entry named "sync_file_range2" or "syscalls".
C7_NoExcluded ==
  Success =>
    /\ IsPerm(Emitted("ARM"),
              Scan(Kept(remote[tablePathARM], "ARMTable"), "386", <<>>).syscalls
              \o ARMHeaderYield)
    /\ IsPerm(Emitted("X32"), Scan(Kept(remote[path64], "X32"), "386", <<>>).syscalls)
    /\ IsPerm(Emitted("X86_64"),
              Scan(Kept(remote[path64], "X86_64"), "386", <<>>).syscalls)
    /\ \A j \in 1..Len(Emitted("AARCH64")) :
         Emitted("AARCH64")[j].Name \notin
           { <<"s","y","s","c","a","l","l","s">>,
             <<"s","y","n","c","_","f","i","l","e","_","r","a","n","g","e","2">> }

\* C7 witness: a successful run whose ARM table has a well-formed line
\* tagged "oabi"
C7_Witness ==
  /\ Success
  /\ \E j \in 1..Len(remote[tablePathARM]) :
       /\ Excluded("ARMTable", remote[tablePathARM][j])
       /\ ~Malformed(remote[tablePathARM][j])

\* the readSyscalls calls that have returned a list: <<builder, call>>
CompletedReads ==
  UNION { { <<builders[i], j>> : j \in 1..Len(Reads(builders[i])) } :
            i \in 1..Len(Arches) }
  \cup { <<builders[bi], j>> : j \in 1..Len(results) }

\* a malformed line; with sparing, one that p's excluded tag does not cover
BadLine(p, t, sparing) == Malformed(t) /\ (sparing => ~Excluded(p, t))

\* the table files read without error hold no bad line
NoBadLineRead(sparing) ==
  \A c \in CompletedReads :
    Reads(c[1])[c[2]].parser \in TableParsers =>
      \A k \in 1..Len(remote[Reads(c[1])[c[2]].path]) :
        ~BadLine(Reads(c[1])[c[2]].parser,
                 TrimSpace(remote[Reads(c[1])[c[2]].path][k]), sparing)

\* a parse error ends the run, and the file's pairs are not kept
ParseErrorFatal ==
  logged = "parse" =>
    /\ pc = "exit"
    /\ exitCode = 1
    /\ Len(results) = fi - 1
    /\ Len(Arches) = bi - 1

\* C8 (as amended): an entry line of a table with fewer than three fields,
\* or with a first field that is no valid integer, makes the builder
\* return an error and ends the run, for every architecture and wherever
\* the line is in the file, except a line with at least three fields whose
\* ABI tag is the excluded one, which is skipped whatever its first field.
C8_MalformedFatal ==
  /\ (pRes # Pending /\ pParser \in TableParsers
        /\ BadLine(pParser, TrimSpace(pRaw), TRUE)) => pRes = Failure
  /\ NoBadLineRead(TRUE)
  /\ ParseErrorFatal

\* C8 witness: the run ended on a malformed second line of the 386 table,
\* after a well-formed first line
C8_Witness ==
  /\ logged = "parse"
  /\ builders[bi] = "386"
  /\ Len(remote[path386]) = 2
  /\ ~Malformed(TrimSpace(remote[path386][1]))
  /\ Malformed(TrimSpace(remote[path386][2]))

\* C8 as stated: also a malformed line with the excluded ABI tag is fatal
C8_Original ==
  /\ (pRes # Pending /\ pParser \in TableParsers
        /\ BadLine(pParser, TrimSpace(pRaw), FALSE)) => pRes = Failure
  /\ NoBadLineRead(FALSE)
  /\ ParseErrorFatal

\* C9: the sort is stable: pairs with the same number are emitted in the
\* order in which they were parsed.
C9_StableSort ==
  \A i \in 1..Len(Arches) :
    Arches[i].Syscalls = StableSorted(Yielded(builders[i]))

\* C10: the list of each builder depends only on the content served for
\* its own paths: every list returned by readSyscalls is what the body
\* served for that path gives, and every architecture's list is a
\* permutation of what its own bodies give, whatever file of the same name
\* an earlier download left in the scratch directory.
C10_OwnContentOnly ==
  /\ \A i \in 1..Len(Arches) : IsPerm(Arches[i].Syscalls, Yielded(builders[i]))
  /\ pc \in {"build", "sort"} =>
       \A j \in 1..Len(results) :
         results[j] = Scan(remote[Reads(builders[bi])[j].path],
                           Reads(builders[bi])[j].parser, <<>>).syscalls

\* C10 witness: AARCH64 was built after an ARM header longer than its own,
\* whose extra lines its parser would have taken
C10_Witness ==
  /\ Len(Arches) >= 2
  /\ Len(remote[headerPathARM]) > Len(remote[headerPathAARCH64])
  /\ Scan(Drop(remote[headerPathARM], Len(remote[headerPathAARCH64])),
          "AARCH64", <<>>).syscalls # <<>>

=============================================================================
